---- MODULE Spec2Model ----
(***************************************************************************)
(* A model of the persistent key-value engine of fedorov-cpp/database:     *)
(* the Database singleton (database.h / database.cpp), its named mutex,    *)
(* the mapped storage file and the worker threads that call it.            *)
(*                                                                         *)
(* Strings are sequences of bytes.  Byte 0 is the NUL byte: the Store      *)
(* builds its in-segment strings from rawKey.c_str() / rawValue.c_str(),   *)
(* i.e. from the prefix of the std::string that precedes the first NUL.    *)
(***************************************************************************)
EXTENDS Integers, Sequences, FiniteSets

\* ------------------------------------------------------------ bounds ----
MaxKeyLen == 1
MaxValLen == 2
NThreads == 2
NProcs == 2
\* The number of requests one server handles in a run of SpecStats.
MaxCalls == 2
\* The number of frames the peer of the modelled connection sends.
MaxFrames == 2
\* The greatest payload size for which the model follows a Session.
MaxBuf == 7

\* The byte alphabet of the model: the NUL byte and one other byte.
Bytes == {0, 1}

Procs == 1..NProcs
Threads == 1..NThreads
\* The process that plays the single server of specification Spec.
MainProc == CHOOSE p \in Procs : \A q \in Procs : p <= q
\* Identities of named-mutex objects (0 stands for "no mutex"): a process
\* holds at most one handle, so NProcs objects can be alive at a time.
MutexIds == 1..NProcs

RECURSIVE StringsUpTo(_)
StringsUpTo(n) ==
  IF n = 0 THEN {<<>>}
  ELSE LET shorter == StringsUpTo(n - 1)
       IN  shorter \cup {Append(s, b) : s \in {x \in shorter : Len(x) = n - 1}, b \in Bytes}

\* Key = std::string, Value = std::string: the arguments callers may pass.
RawKeys == StringsUpTo(MaxKeyLen)
RawValues == StringsUpTo(MaxValLen)

\* ------------------------------------------------- pure Store helpers ----
\* std::string::c_str() read as a C string: the bytes before the first NUL.
c_str(s) ==
  LET nuls == {i \in 1..Len(s) : s[i] = 0}
  IN  IF nuls = {} THEN s
      ELSE SubSeq(s, 1, (CHOOSE i \in nuls : \A j \in nuls : i <= j) - 1)

\* Item{key, value} of the container.
Item(k, v) == [key |-> k, value |-> v]

\* index.find(key) on the hashed_unique index: the set of items found (the
\* empty set is index.end()).
find(db, key) == {i \in db : i.key = key}

\* db_->emplace(item) on a hashed_unique index: refuses a duplicate key.
emplace(db, item) ==
  IF find(db, item.key) # {}
    THEN [db |-> db, second |-> FALSE]
    ELSE [db |-> db \cup {item}, second |-> TRUE]

\* Mutant of ins: an existing key is overwritten while the error is reported.
insOverwrite(db, rawKey, rawValue) ==
  LET key == c_str(rawKey)
      value == c_str(rawValue)
      it == find(db, key)
  IN  IF it # {}
        THEN [err |-> "INSERT_KEY_ALREADY_EXISTS",
              db |-> (db \ it) \cup {Item(key, value)}]
        ELSE [err |-> "NONE", db |-> db \cup {Item(key, value)}]

\* Mutant of ins: the duplicate check is dropped and the item appended.
insDuplicate(db, rawKey, rawValue) ==
  [err |-> "NONE", db |-> db \cup {Item(c_str(rawKey), c_str(rawValue))}]

\* Database::ins.
ins(db, rawKey, rawValue) ==
  LET key == c_str(rawKey)
      value == c_str(rawValue)
      it == find(db, key)
  IN  IF it # {}
        THEN [err |-> "INSERT_KEY_ALREADY_EXISTS", db |-> db]
        ELSE LET result == emplace(db, Item(key, value))
             IN  [err |-> IF result.second THEN "NONE" ELSE "INSERT_KEY_ALREADY_EXISTS",
                  db |-> result.db]

\* Database::upd.
upd(db, rawKey, rawValue) ==
  LET key == c_str(rawKey)
      value == c_str(rawValue)
      it == find(db, key)
  IN  IF it = {} THEN [err |-> "UPDATE_KEY_NOT_FOUND", db |-> db]
      ELSE IF \E i \in it : i.value = value
        THEN [err |-> "UPDATE_VALUE_ALREADY_EXISTS", db |-> db]
        ELSE [err |-> "NONE", db |-> (db \ it) \cup {Item(key, value)}]

\* Database::del.
del(db, rawKey) ==
  LET key == c_str(rawKey)
      it == find(db, key)
  IN  IF it = {} THEN [err |-> "DELETE_KEY_NOT_FOUND", db |-> db]
      ELSE [err |-> "NONE", db |-> db \ it]

\* Database::get; value is the caller's out-parameter, left alone on a miss.
get(db, rawKey, value) ==
  LET key == c_str(rawKey)
      it == find(db, key)
  IN  IF it = {} THEN [err |-> "GET_KEY_NOT_FOUND", db |-> db, value |-> value]
      ELSE [err |-> "NONE", db |-> db, value |-> (CHOOSE i \in it : TRUE).value]

\* Database::size.
size(db) == Cardinality(db)

\* ------------------------------------------------------------- state ----
VARIABLES
  fileExists,  \* the storage file exists on disk
  db,          \* the Db container inside the mapped file (shared by its openers)
  mtxName,     \* the mutex object registered as DATABASE_MUTEX, 0 when none
  mtxOwner,    \* per mutex object: the <<process, thread>> holding it, or <<>>
  procPc,      \* per process: where its Database singleton / Server is
  handle,      \* per process: the mutex object db_mtx_ refers to, 0 when none
  atStop,      \* per process: the Store's contents at its last normal stop
  thr,         \* per process and worker thread: the Store call in progress
  stats,       \* per process: the Stats object of its Server
  hnd,         \* per process and worker thread: the request handler in progress
  tmr,         \* the timer thread of the server: where Stats::print is
  conn,        \* one TCP connection and the Session that serves it
  cli,         \* a Client object and the call of send in progress
  cod,         \* a message, its encoding and the message decoded from it
  srv          \* the acceptor of a Server and the Sessions it has started

\* The state of the Store and of the processes that open it.
store == <<fileExists, db, mtxName, mtxOwner, procPc, handle, atStop, thr>>
\* The state of the network front end: Stats, Session, Client and Codec.
ext == <<stats, hnd, tmr, conn, cli, cod, srv>>

vars == <<store, ext>>

NoCall == [pc |-> "idle", op |-> "none", key |-> <<>>, value |-> <<>>,
           err |-> "NONE", out |-> <<>>, n |-> 0]
Waiting == [NoCall EXCEPT !.pc = "wait"]
InCall == [NoCall EXCEPT !.pc = "cs"]
NoSnapshot == [valid |-> FALSE, db |-> {}]

\* enum class Operation : uint8_t and enum class Error : uint8_t.
Operation == [INSERT |-> 0, UPDATE |-> 1, DELETE |-> 2, GET |-> 3]
Error == [NONE |-> 0, INSERT_KEY_ALREADY_EXISTS |-> 1, UPDATE_KEY_NOT_FOUND |-> 2,
          UPDATE_VALUE_ALREADY_EXISTS |-> 3, DELETE_KEY_NOT_FOUND |-> 4,
          GET_KEY_NOT_FOUND |-> 5, INVALID_KEY_LENGTH |-> 6,
          INVALID_VALUE_LENGTH |-> 7]
Operations == {Operation[n] : n \in DOMAIN Operation}
Errors == {Error[n] : n \in DOMAIN Error}

\* struct OperationStats: two counters, zero on construction.
OperationStats == [successful |-> 0, failed |-> 0]

\* A process that has constructed no Stats.  totalItemsInDb_ is an
\* atomic<size_t>: the model keeps the integer of least magnitude congruent
\* to it modulo 2^64, so -1 stands for the wrapped value 2^64 - 1.
\* operationStats_ is the unordered_map, a function on the operations it
\* holds an entry for.  calls counts, per operation, the calls of update made.
NoStats == [built |-> FALSE, crashed |-> FALSE, totalItemsInDb_ |-> 0,
            operationStats_ |-> <<>>, calls |-> [o \in Operations |-> 0]]

\* A worker thread that handles no request.
IdleHandler == [pc |-> "idle", operation |-> 0, error |-> 0, inserts |-> FALSE]

\* The front end before any server or client is started.
ExtInit ==
  /\ stats = [p \in Procs |-> NoStats]
  /\ hnd = [p \in Procs |-> [t \in Threads |-> IdleHandler]]
  /\ tmr = "wait"
  /\ conn = <<>>
  /\ cli = <<>>
  /\ cod = <<>>
  /\ srv = <<>>

Init ==
  /\ fileExists = FALSE
  /\ db = {}
  /\ mtxName = 0
  /\ mtxOwner = [m \in MutexIds |-> <<>>]
  /\ procPc = [p \in Procs |-> "off"]
  /\ handle = [p \in Procs |-> 0]
  /\ atStop = [p \in Procs |-> NoSnapshot]
  /\ thr = [p \in Procs |-> [t \in Threads |-> NoCall]]
  /\ ExtInit

\* The shape of the state.
TypeOK ==
  /\ fileExists \in BOOLEAN
  /\ db \subseteq [key : StringsUpTo(MaxKeyLen), value : StringsUpTo(MaxValLen)]
  /\ mtxName \in MutexIds \cup {0}
  /\ \A m \in MutexIds : mtxOwner[m] \in {<<>>} \cup {<<p, t>> : p \in Procs, t \in Threads}
  /\ \A p \in Procs :
       /\ procPc[p] \in {"off", "opened", "constructed", "inited", "running"}
       /\ handle[p] \in MutexIds \cup {0}
       /\ procPc[p] = "off" <=> handle[p] = 0
       /\ atStop[p].valid \in BOOLEAN
       /\ \A t \in Threads :
            /\ thr[p][t].pc \in {"idle", "wait", "cs", "ret"}
            /\ thr[p][t].pc # "idle" => procPc[p] = "running"

\* The contents the container can hold: keys and values are segment strings
\* built from C strings, and the index keeps keys unique.
StoredKeys == {c_str(k) : k \in RawKeys}
StoredValues == {c_str(v) : v \in RawValues}
Stores ==
  {s \in SUBSET {Item(k, v) : k \in StoredKeys, v \in StoredValues} :
     \A i, j \in s : i.key = j.key => i = j}

\* A thread is inside a Store operation: between the mutex acquisition and
\* the return.
Inside(p, t) == thr[p][t].pc \in {"cs", "ret"}

\* ----------------------------------------------- process life cycle ----
\* Database::Database, member db_mtx_: named_mutex(open_or_create, name).
OpenMutex(p) ==
  /\ procPc[p] = "off"
  /\ IF mtxName # 0
       THEN /\ handle' = [handle EXCEPT ![p] = mtxName]
            /\ UNCHANGED mtxName
       ELSE LET free == {m \in MutexIds : \A q \in Procs : handle[q] # m}
                m == CHOOSE x \in free : \A y \in free : x <= y
            IN  /\ handle' = [handle EXCEPT ![p] = m]
                /\ mtxName' = m
  /\ procPc' = [procPc EXCEPT ![p] = "opened"]
  /\ UNCHANGED <<fileExists, db, mtxOwner, atStop, thr, ext>>

\* Database::Database, member mtx_remover_ (declared after db_mtx_):
\* mutex_remove() calls named_mutex::remove(DB_MTX_NAME).
RemoveMutexName(p) ==
  /\ procPc[p] = "opened"
  /\ mtxName' = 0
  /\ procPc' = [procPc EXCEPT ![p] = "constructed"]
  /\ UNCHANGED <<fileExists, db, mtxOwner, handle, atStop, thr, ext>>

\* Mutant of init: the container is constructed anew on every start.
initFresh(p) ==
  /\ procPc[p] = "constructed"
  /\ fileExists' = TRUE
  /\ db' = {}
  /\ procPc' = [procPc EXCEPT ![p] = "inited"]
  /\ UNCHANGED <<mtxName, mtxOwner, handle, atStop, thr, ext>>

\* Database::init, called by Server::Server: managed_mapped_file
\* (open_or_create) and find_or_construct<Db>.
init(p) ==
  /\ procPc[p] = "constructed"
  /\ fileExists' = TRUE
  /\ db' = IF fileExists THEN db ELSE {}
  /\ procPc' = [procPc EXCEPT ![p] = "inited"]
  /\ UNCHANGED <<mtxName, mtxOwner, handle, atStop, thr, ext>>

\* Server::run: the worker threads start pumping the reactor.
run(p) ==
  /\ procPc[p] = "inited"
  /\ procPc' = [procPc EXCEPT ![p] = "running"]
  /\ atStop' = [atStop EXCEPT ![p] = NoSnapshot]
  /\ UNCHANGED <<fileExists, db, mtxName, mtxOwner, handle, thr, ext>>

\* Normal termination: the static Database is destroyed; ~mutex_remove()
\* removes the name, then db_mtx_ is closed.  The mapped file stays.
Exit(p) ==
  /\ procPc[p] = "running"
  /\ \A t \in Threads : thr[p][t].pc = "idle"
  /\ mtxName' = 0
  /\ handle' = [handle EXCEPT ![p] = 0]
  /\ atStop' = [atStop EXCEPT ![p] = [valid |-> TRUE, db |-> db]]
  /\ procPc' = [procPc EXCEPT ![p] = "off"]
  /\ UNCHANGED <<fileExists, db, mtxOwner, thr, ext>>

\* ---------------------------------------------------- Store calls ----
\* A worker thread's handler calls a Store operation (Session::handleRequest
\* dispatching to db.ins / upd / del / get, or a caller of size()).
Call(p, t) ==
  /\ procPc[p] = "running"
  /\ thr[p][t].pc = "idle"
  /\ thr' = [thr EXCEPT ![p][t] = Waiting]
  /\ UNCHANGED <<fileExists, db, mtxName, mtxOwner, procPc, handle, atStop, ext>>

\* Mutant of Lock: the lock is taken without waiting for its holder.
LockNoWait(p, t) ==
  /\ thr[p][t].pc = "wait"
  /\ mtxOwner' = [mtxOwner EXCEPT ![handle[p]] = <<p, t>>]
  /\ thr' = [thr EXCEPT ![p][t] = InCall]
  /\ UNCHANGED <<fileExists, db, mtxName, procPc, handle, atStop, ext>>

\* scoped_lock<named_mutex> lock(db_mtx_): blocks until the mutex is free.
Lock(p, t) ==
  /\ thr[p][t].pc = "wait"
  /\ mtxOwner[handle[p]] = <<>>
  /\ mtxOwner' = [mtxOwner EXCEPT ![handle[p]] = <<p, t>>]
  /\ thr' = [thr EXCEPT ![p][t] = InCall]
  /\ UNCHANGED <<fileExists, db, mtxName, procPc, handle, atStop, ext>>

\* No thread of another process is inside a Store operation on the same
\* mapped file (within a process the mutex already excludes the others).
NoRace(p, t) ==
  \A q \in Procs \ {p}, u \in Threads : thr[q][u].pc # "cs"

\* The body of a Store operation, run under the lock, up to its return value.
Returned(p, t, o, k, v, r, val, cnt) ==
  /\ db' = r.db
  /\ thr' = [thr EXCEPT ![p][t] =
               [pc |-> "ret", op |-> o, key |-> k, value |-> v,
                err |-> r.err, out |-> val, n |-> cnt]]
  /\ UNCHANGED <<fileExists, mtxName, mtxOwner, procPc, handle, atStop, ext>>

Ins(p, t) ==
  /\ thr[p][t].pc = "cs"
  /\ NoRace(p, t)
  /\ \E k \in RawKeys, v \in RawValues :
       Returned(p, t, "INSERT", k, v, ins(db, k, v), <<>>, 0)

Upd(p, t) ==
  /\ thr[p][t].pc = "cs"
  /\ NoRace(p, t)
  /\ \E k \in RawKeys, v \in RawValues :
       Returned(p, t, "UPDATE", k, v, upd(db, k, v), <<>>, 0)

Del(p, t) ==
  /\ thr[p][t].pc = "cs"
  /\ NoRace(p, t)
  /\ \E k \in RawKeys :
       Returned(p, t, "DELETE", k, <<>>, del(db, k), <<>>, 0)

Get(p, t) ==
  /\ thr[p][t].pc = "cs"
  /\ NoRace(p, t)
  /\ \E k \in RawKeys :
       LET r == get(db, k, <<>>)
       IN  Returned(p, t, "GET", k, <<>>, r, r.value, 0)

Size(p, t) ==
  /\ thr[p][t].pc = "cs"
  /\ NoRace(p, t)
  /\ Returned(p, t, "SIZE", <<>>, <<>>, [err |-> "NONE", db |-> db], <<>>, size(db))

\* The scoped_lock is destroyed as the operation returns.
Unlock(p, t) ==
  /\ thr[p][t].pc = "ret"
  /\ mtxOwner' = [mtxOwner EXCEPT ![handle[p]] = <<>>]
  /\ thr' = [thr EXCEPT ![p][t] = NoCall]
  /\ UNCHANGED <<fileExists, db, mtxName, procPc, handle, atStop, ext>>

\* ------------------------------------------------- specifications ----
\* One server process with its worker threads.
Next ==
  \E t \in Threads :
    \/ OpenMutex(MainProc)
    \/ RemoveMutexName(MainProc)
    \/ init(MainProc)
    \/ run(MainProc)
    \/ Exit(MainProc)
    \/ Call(MainProc, t)
    \/ Lock(MainProc, t)
    \/ Ins(MainProc, t)
    \/ Upd(MainProc, t)
    \/ Del(MainProc, t)
    \/ Get(MainProc, t)
    \/ Size(MainProc, t)
    \/ Unlock(MainProc, t)

Spec == Init /\ [][Next]_vars

\* Several processes, each with its own Database singleton, opened on the
\* same storage file; one worker thread per process suffices here.
Worker == CHOOSE t \in Threads : \A u \in Threads : t <= u

\* A Store operation run while a thread of another process is inside one on
\* the same mapped segment: the two bodies race on the container (undefined
\* behaviour), so the container and the result may come out as anything.
Race(p, t) ==
  /\ thr[p][t].pc = "cs"
  /\ ~NoRace(p, t)
  /\ \E o \in {"INSERT", "UPDATE", "DELETE", "GET", "SIZE"},
        k \in RawKeys, v \in RawValues, s \in Stores,
        e \in {"NONE", "INSERT_KEY_ALREADY_EXISTS", "UPDATE_KEY_NOT_FOUND",
               "UPDATE_VALUE_ALREADY_EXISTS", "DELETE_KEY_NOT_FOUND",
               "GET_KEY_NOT_FOUND"},
        val \in StoredValues, cnt \in 0..Cardinality(StoredKeys) :
       /\ o \in {"DELETE", "GET", "SIZE"} => v = <<>>
       /\ o = "SIZE" => k = <<>> /\ e = "NONE"
       /\ o # "SIZE" => cnt = 0
       /\ o # "GET" => val = <<>>
       /\ e # "NONE" => e \in
            (CASE o = "INSERT" -> {"INSERT_KEY_ALREADY_EXISTS"}
               [] o = "UPDATE" -> {"UPDATE_KEY_NOT_FOUND", "UPDATE_VALUE_ALREADY_EXISTS"}
               [] o = "DELETE" -> {"DELETE_KEY_NOT_FOUND"}
               [] o = "GET" -> {"GET_KEY_NOT_FOUND"}
               [] OTHER -> {})
       /\ Returned(p, t, o, k, v, [err |-> e, db |-> s], val, cnt)

NextProcs ==
  \E p \in Procs :
    \/ OpenMutex(p)
    \/ RemoveMutexName(p)
    \/ init(p)
    \/ run(p)
    \/ Exit(p)
    \/ Call(p, Worker)
    \/ Lock(p, Worker)
    \/ Ins(p, Worker)
    \/ Upd(p, Worker)
    \/ Del(p, Worker)
    \/ Get(p, Worker)
    \/ Size(p, Worker)
    \/ Race(p, Worker)
    \/ Unlock(p, Worker)

SpecProcs == Init /\ [][NextProcs]_vars

\* ------------------------------------------------------------ Stats ----
\* operationStats_[operation] of std::unordered_map: the entry of the
\* operation, inserted with zeroed counters when the map holds none.
index(m, operation) ==
  IF operation \in DOMAIN m THEN m
  ELSE [o \in DOMAIN m \cup {operation} |->
          IF o = operation THEN OperationStats ELSE m[o]]

\* Mutant of update: a call answered with an error counts as successful.
updateAllSuccessful(st, operation, error) ==
  LET m == index(st.operationStats_, operation)
  IN  [st EXCEPT !.operationStats_ =
                    [m EXCEPT ![operation].successful = @ + 1]]

\* Stats::update, run with no other access to the Stats object in between.
update(st, operation, error) ==
  LET m == index(st.operationStats_, operation)
      failed == error # Error.NONE
      cnt == IF failed THEN "failed" ELSE "successful"
      afterInsert == IF operation = Operation.INSERT /\ ~failed
                       THEN st.totalItemsInDb_ + 1 ELSE st.totalItemsInDb_
      afterDelete == IF operation = Operation.DELETE /\ ~failed
                       THEN afterInsert - 1 ELSE afterInsert
  IN  [st EXCEPT !.operationStats_ = [m EXCEPT ![operation][cnt] = @ + 1],
                 !.totalItemsInDb_ = afterDelete]

\* The counter that Stats::print shows for an operation; an operation the
\* map holds no entry for has no line, that is no attempt counted.
Counter(st, operation, cnt) ==
  IF operation \in DOMAIN st.operationStats_
    THEN st.operationStats_[operation][cnt] ELSE 0

\* The switch of Session::handleRequest: the Store operation of a Request.
StoreCall(s, operation, key, value) ==
  CASE operation = Operation.INSERT -> ins(s, key, value)
    [] operation = Operation.UPDATE -> upd(s, key, value)
    [] operation = Operation.DELETE -> del(s, key)
    [] operation = Operation.GET -> get(s, key, <<>>)

\* The requests the handlers of SpecStats are given: Stats sees of a request
\* its operation and the error the Store answered, and one key with two
\* values draws every such pair from the Store.  DELETE and GET carry no
\* value.
SampleKeys == {<<1>>}
SampleValues == {<<>>, <<1>>}
Requests ==
  {r \in [operation : Operations, key : SampleKeys, value : SampleValues] :
     r.operation \in {Operation.DELETE, Operation.GET} => r.value = <<>>}
\* What earlier runs that handled such requests left in the storage file.
SampleStores ==
  {s \in Stores : \A i \in s : i.key \in SampleKeys /\ i.value \in SampleValues}

\* The server process is up and has not been killed by a fault.
Serving(p) == stats[p].built /\ ~stats[p].crashed

\* All update calls made by the process so far.
CallsMade(p) ==
  stats[p].calls[Operation.INSERT] + stats[p].calls[Operation.UPDATE]
    + stats[p].calls[Operation.DELETE] + stats[p].calls[Operation.GET]

\* Stats::Stats, constructed by Server::Server after Database::init.
Stats(p) ==
  /\ procPc[p] = "inited"
  /\ ~stats[p].built
  /\ stats' = [stats EXCEPT ![p] =
                 [NoStats EXCEPT !.built = TRUE, !.totalItemsInDb_ = size(db)]]
  /\ UNCHANGED <<store, hnd, tmr, conn, cli, cod, srv>>

\* Session::handleRequest up to the lookup in Stats::update: the Store
\* operation of the request, run under the Store's mutex, then update is
\* entered and operationStats_[operation] starts; it will insert when the
\* map holds no entry for the operation.
handleRequest(p, t) ==
  /\ Serving(p)
  /\ hnd[p][t].pc = "idle"
  /\ CallsMade(p) < MaxCalls
  /\ \E r \in Requests :
       LET res == StoreCall(db, r.operation, r.key, r.value)
       IN  /\ db' = res.db
           /\ hnd' = [hnd EXCEPT ![p][t] =
                        [pc |-> "update", operation |-> r.operation,
                         error |-> Error[res.err],
                         inserts |-> r.operation \notin DOMAIN stats[p].operationStats_]]
           /\ stats' = [stats EXCEPT ![p].calls[r.operation] = @ + 1]
  /\ UNCHANGED <<fileExists, mtxName, mtxOwner, procPc, handle, atStop, thr,
                 tmr, conn, cli, cod, srv>>

\* Another worker thread is inside operator[] while thread t is, and one of
\* the two inserts into the map: a data race between two accesses that both
\* may relink the table.
ThreadConflict(p, t) ==
  \E u \in Threads \ {t} :
    /\ hnd[p][u].pc = "update"
    /\ hnd[p][t].inserts \/ hnd[p][u].inserts

\* Thread t inserts into the map while Stats::print iterates over it on the
\* timer thread: a data race with a reader.
PrintConflict(p, t) == hnd[p][t].inserts /\ p = MainProc /\ tmr = "print"

Conflict(p, t) == ThreadConflict(p, t) \/ PrintConflict(p, t)

\* The rest of Stats::update when operator[] met no conflicting access: the
\* entry is in the map, cnt++ on it, then the total.
Update(p, t) ==
  /\ Serving(p)
  /\ hnd[p][t].pc = "update"
  /\ ~Conflict(p, t)
  /\ stats' = [stats EXCEPT ![p] = update(@, hnd[p][t].operation, hnd[p][t].error)]
  /\ hnd' = [hnd EXCEPT ![p][t] = IdleHandler]
  /\ UNCHANGED <<store, tmr, conn, cli, cod, srv>>

\* The rest of Stats::update when operator[] ran in a data race on the
\* unordered_map (undefined behaviour).  Racing with another worker, any of
\* the entries, the new one included, may have been lost from the map, and
\* cnt++ on a node the map does not reach is out of sight; racing with the
\* reader only, the insertion itself is as without the race.  The total, an
\* atomic outside the map, is updated.  Or the process dies on the table.
UpdateRace(p, t) ==
  /\ Serving(p)
  /\ hnd[p][t].pc = "update"
  /\ Conflict(p, t)
  /\ \/ /\ \E kept \in SUBSET (DOMAIN index(stats[p].operationStats_,
                                             hnd[p][t].operation)) :
            LET done == update(stats[p], hnd[p][t].operation, hnd[p][t].error)
            IN  /\ ThreadConflict(p, t) \/ kept = DOMAIN done.operationStats_
                /\ stats' = [stats EXCEPT ![p] =
                                [done EXCEPT !.operationStats_ =
                                                [o \in kept |-> done.operationStats_[o]]]]
        /\ hnd' = [hnd EXCEPT ![p][t] = IdleHandler]
     \/ /\ stats' = [stats EXCEPT ![p].crashed = TRUE]
        /\ UNCHANGED hnd
  /\ UNCHANGED <<store, tmr, conn, cli, cod, srv>>

\* The deadline timer expires: Stats::print starts to iterate over the map
\* on the timer thread.
print(p) ==
  /\ Serving(p)
  /\ tmr = "wait"
  /\ tmr' = "print"
  /\ UNCHANGED <<store, stats, hnd, conn, cli, cod, srv>>

\* Stats::print has written its lines and re-armed the timer.  When a worker
\* thread is inserting into the map meanwhile, the iteration raced with it
\* and may also have killed the process.
PrintEnd(p) ==
  /\ Serving(p)
  /\ tmr = "print"
  /\ tmr' = "wait"
  /\ \/ UNCHANGED stats
     \/ /\ \E t \in Threads : hnd[p][t].pc = "update" /\ hnd[p][t].inserts
        /\ stats' = [stats EXCEPT ![p].crashed = TRUE]
  /\ UNCHANGED <<store, hnd, conn, cli, cod, srv>>

\* One server process started on a storage file that earlier runs may have
\* filled: Database::init has returned, Server::Server goes on.
InitStats ==
  /\ fileExists = TRUE
  /\ db \in SampleStores
  /\ mtxName = 0
  /\ mtxOwner = [m \in MutexIds |-> <<>>]
  /\ procPc = [p \in Procs |-> IF p = MainProc THEN "inited" ELSE "off"]
  /\ handle = [p \in Procs |-> IF p = MainProc THEN p ELSE 0]
  /\ atStop = [p \in Procs |->
                IF p = MainProc /\ db # {} THEN [valid |-> TRUE, db |-> db]
                ELSE NoSnapshot]
  /\ thr = [p \in Procs |-> [t \in Threads |-> NoCall]]
  /\ ExtInit

\* The worker threads of one server and its timer thread.
NextStats ==
  \E t \in Threads :
    \/ Stats(MainProc)
    \/ handleRequest(MainProc, t)
    \/ Update(MainProc, t)
    \/ UpdateRace(MainProc, t)
    \/ print(MainProc)
    \/ PrintEnd(MainProc)

SpecStats == InitStats /\ [][NextStats]_vars

\* Several server processes started on the same storage file, each with its
\* own Stats and one worker thread; the Store operations take turns.
InitStatsProcs ==
  /\ fileExists = TRUE
  /\ db \in SampleStores
  /\ mtxName = 0
  /\ mtxOwner = [m \in MutexIds |-> <<>>]
  /\ procPc = [p \in Procs |-> "inited"]
  /\ handle = [p \in Procs |-> p]
  /\ atStop = [p \in Procs |->
                IF db # {} THEN [valid |-> TRUE, db |-> db] ELSE NoSnapshot]
  /\ thr = [p \in Procs |-> [t \in Threads |-> NoCall]]
  /\ ExtInit

NextStatsProcs ==
  \E p \in Procs :
    \/ Stats(p)
    \/ handleRequest(p, Worker)
    \/ Update(p, Worker)

SpecStatsProcs == InitStatsProcs /\ [][NextStatsProcs]_vars

\* ------------------------------------------------------------ Codec ----
\* sizeof(T), in bytes, of the types the Reader and the Writer are used with:
\* the two enums (uint8_t), the string length (uint16_t) and the frame
\* length (size_t).
sizeof == [uint8_t |-> 1, uint16_t |-> 2, size_t |-> 8]

\* The object representation of an integer of n bytes, as std::memcpy copies
\* it, and the integer a pointer cast reads back from such bytes.  The host
\* is little-endian.
RECURSIVE memcpy(_, _)
memcpy(v, n) == IF n = 0 THEN <<>> ELSE <<v % 256>> \o memcpy(v \div 256, n - 1)

RECURSIVE load(_)
load(bytes) == IF bytes = <<>> THEN 0 ELSE Head(bytes) + 256 * load(Tail(bytes))

\* htons / htonl / htonll (and ntohs / ntohl / ntohll) on a little-endian
\* host: the n bytes of the value in reverse order.
byteswap(v, n) ==
  LET b == memcpy(v, n)
  IN  load([i \in 1..n |-> b[n + 1 - i]])

\* Mutant of hton: the branch is taken on the width in bits, so that a
\* 16-bit value goes out in network order.
htonByBits(T, v) ==
  LET bits == 8 * sizeof[T]
  IN  IF 16 = bits THEN byteswap(v, 2)
      ELSE IF 32 = bits THEN byteswap(v, 4)
      ELSE IF 64 = bits THEN byteswap(v, 8)
      ELSE v

\* template<typename T> T ntoh(T v): the branch is taken on sizeof(T), a
\* count of bytes, compared with 16, 32 and 64.
ntoh(T, v) ==
  LET width == sizeof[T]
  IN  IF 16 = width THEN byteswap(v % 65536, 2)
      ELSE IF 32 = width THEN byteswap(v, 4)
      ELSE IF 64 = width THEN byteswap(v, 8)
      ELSE v

\* template<typename T> T hton(T v).
hton(T, v) ==
  LET width == sizeof[T]
  IN  IF 16 = width THEN byteswap(v % 65536, 2)
      ELSE IF 32 = width THEN byteswap(v, 4)
      ELSE IF 64 = width THEN byteswap(v, 8)
      ELSE v

\* Writer::operator()(T const &): buf_ grows by sizeof(T) bytes, the object
\* representation of hton(val).
Write(buf, T, val) == buf \o memcpy(hton(T, val), sizeof[T])

\* Writer::operator()(const std::string &): the length cast to uint16_t,
\* then all the bytes of the string.
WriteString(buf, val) ==
  LET valSize == Len(val)
  IN  Write(buf, "uint16_t", valSize % 65536) \o val

\* boost::fusion::for_each(request, writer) and (response, writer) on an
\* empty buffer: the fields in declaration order.
WriteRequest(m) ==
  WriteString(WriteString(Write(<<>>, "uint8_t", m.operation), m.key), m.value)

WriteResponse(m) ==
  WriteString(Write(Write(<<>>, "uint8_t", m.operation), "uint8_t", m.error), m.value)

\* Reader(const_buffer) over a buffer of Len(buf) bytes.  The Reader checks
\* no bound: a read that runs past the buffer takes the bytes that lie
\* behind it in memory (junk), and faults when it leaves those as well.
Reader(buf, junk) ==
  [mem |-> buf \o junk, end |-> Len(buf), pos |-> 0, fault |-> FALSE]

\* buf_ = buf_ + n of boost::asio::const_buffer: advances by n, but not
\* beyond the end of the buffer.
Advance(rd, n) ==
  [rd EXCEPT !.pos = IF n < rd.end - rd.pos THEN rd.pos + n ELSE rd.end]

\* Reader::operator()(T &): val = ntoh(*buffer_cast<T const *>(buf_)).
Read(rd, T) ==
  LET n == sizeof[T]
  IN  IF rd.fault \/ rd.pos + n > Len(rd.mem)
        THEN [val |-> 0, rd |-> [rd EXCEPT !.fault = TRUE]]
        ELSE [val |-> ntoh(T, load(SubSeq(rd.mem, rd.pos + 1, rd.pos + n))),
              rd |-> Advance(rd, n)]

\* Reader::operator()(std::string &): a uint16_t length, then that many
\* bytes.
ReadString(rd) ==
  LET length == Read(rd, "uint16_t")
      from == length.rd.pos
  IN  IF length.rd.fault \/ from + length.val > Len(rd.mem)
        THEN [val |-> <<>>, rd |-> [length.rd EXCEPT !.fault = TRUE]]
        ELSE [val |-> SubSeq(rd.mem, from + 1, from + length.val),
              rd |-> Advance(length.rd, length.val)]

\* boost::fusion::for_each(request_, reader) and (response, reader).
ReadRequest(rd) ==
  LET operation == Read(rd, "uint8_t")
      key == ReadString(operation.rd)
      value == ReadString(key.rd)
  IN  [operation |-> operation.val, key |-> key.val, value |-> value.val,
       fault |-> value.rd.fault]

ReadResponse(rd) ==
  LET operation == Read(rd, "uint8_t")
      error == Read(operation.rd, "uint8_t")
      value == ReadString(error.rd)
  IN  [operation |-> operation.val, error |-> error.val, value |-> value.val,
       fault |-> value.rd.fault]

\* A string of the greatest length the 16-bit length field can carry.
UINT16_MAX == 65535
LongString == [i \in 1..UINT16_MAX |-> 1]

\* The messages given to the codec: every Request and Response over the
\* short strings, and one of each with a string of the greatest length.
CodecRequests ==
  {[kind |-> "Request", operation |-> o, key |-> k, value |-> v] :
     o \in Operations, k \in RawKeys, v \in RawValues \cup {LongString}}
CodecResponses ==
  {[kind |-> "Response", operation |-> o, error |-> e, value |-> v] :
     o \in Operations, e \in Errors, v \in RawValues \cup {LongString}}

\* No message is being coded.
NoMessage == [kind |-> "Request", operation |-> 0, key |-> <<>>, value |-> <<>>]

\* A message handed to the sender.
InitCodec ==
  /\ fileExists = FALSE
  /\ db = {}
  /\ mtxName = 0
  /\ mtxOwner = [m \in MutexIds |-> <<>>]
  /\ procPc = [p \in Procs |-> "off"]
  /\ handle = [p \in Procs |-> 0]
  /\ atStop = [p \in Procs |-> NoSnapshot]
  /\ thr = [p \in Procs |-> [t \in Threads |-> NoCall]]
  /\ stats = [p \in Procs |-> NoStats]
  /\ hnd = [p \in Procs |-> [t \in Threads |-> IdleHandler]]
  /\ tmr = "wait"
  /\ conn = <<>>
  /\ cli = <<>>
  /\ srv = <<>>
  /\ \E m \in CodecRequests \cup CodecResponses :
       cod = [pc |-> "message", msg |-> m, buf |-> <<>>, out |-> NoMessage,
              fault |-> FALSE]

\* Writer writer(buf); for_each(message, writer): Client::write for a
\* Request, Session::write for a Response.
Encode ==
  /\ cod.pc = "message"
  /\ cod' = [cod EXCEPT !.pc = "encoded",
                        !.buf = IF cod.msg.kind = "Request"
                                  THEN WriteRequest(cod.msg)
                                  ELSE WriteResponse(cod.msg)]
  /\ UNCHANGED <<store, stats, hnd, tmr, conn, cli, srv>>

\* Reader reader(buffer over the same bytes); for_each(message, reader):
\* Session::read for a Request, Client::read for a Response.
Decode ==
  /\ cod.pc = "encoded"
  /\ LET rd == Reader(cod.buf, <<>>)
         m == IF cod.msg.kind = "Request" THEN ReadRequest(rd) ELSE ReadResponse(rd)
     IN  cod' = [cod EXCEPT
                   !.pc = "decoded",
                   !.fault = m.fault,
                   !.out = IF cod.msg.kind = "Request"
                             THEN [kind |-> "Request", operation |-> m.operation,
                                   key |-> m.key, value |-> m.value]
                             ELSE [kind |-> "Response", operation |-> m.operation,
                                   error |-> m.error, value |-> m.value]]
  /\ UNCHANGED <<store, stats, hnd, tmr, conn, cli, srv>>

NextCodec == Encode \/ Decode

SpecCodec == InitCodec /\ [][NextCodec]_vars

\* ---------------------------------------------------------- Session ----
\* Mutant of respond: an INSERT is answered with the value it carried.
respondEchoValue(s, request, response) ==
  IF request.operation \in Operations
    THEN LET res == StoreCall(s, request.operation, request.key, request.value)
         IN  [db |-> res.db, called |-> TRUE, error |-> Error[res.err],
              response |-> [operation |-> request.operation,
                            error |-> Error[res.err],
                            value |-> IF request.operation = Operation.GET
                                        THEN res.value ELSE request.value]]
    ELSE [db |-> s, called |-> FALSE, error |-> Error.NONE, response |-> response]

\* The switch of Session::handleRequest on request_.operation: the Store
\* call and the Response built from its result.  An operation byte that is
\* none of the four cases calls nothing and leaves response_ as it was; the
\* local error is then never assigned.
respond(s, request, response) ==
  IF request.operation \in Operations
    THEN LET res == StoreCall(s, request.operation, request.key, request.value)
         IN  [db |-> res.db, called |-> TRUE, error |-> Error[res.err],
              response |-> [operation |-> request.operation,
                            error |-> Error[res.err],
                            value |-> IF request.operation = Operation.GET
                                        THEN res.value ELSE <<>>]]
    ELSE [db |-> s, called |-> FALSE, error |-> Error.NONE, response |-> response]

\* std::vector<char>::resize(n): the old bytes that fit, then zeros.
resize(buf, n) == [i \in 1..n |-> IF i <= Len(buf) THEN buf[i] ELSE 0]

\* A frame as Client::write sends it: the payload size as a size_t in host
\* order, then the payload.
Frame(payload) == memcpy(Len(payload), sizeof.size_t) \o payload

\* The payloads the peer of the modelled connection sends: the Requests the
\* Client encodes, a payload whose operation byte is no Operation, and one
\* that ends inside the key.
SessionRequests ==
  {[operation |-> r.operation, key |-> r.key, value |-> r.value] : r \in Requests}
Undecodable == {<<4, 0, 0, 0, 0>>, <<Operation.GET, 1, 0>>}
Payloads == {WriteRequest(r) : r \in SessionRequests} \cup Undecodable

\* The bytes that may lie behind buf_ in memory: none that can be read,
\* zeros, or the start of another string.
Junk == {<<>>, <<0, 0>>, <<1, 0, 1>>}

\* The number of bytes an async_read_some for want bytes may complete with
\* when there bytes are on their way: all it asked for, or the single byte
\* of a segment that arrived alone.
Arrivals(want, there) == {n \in {1, want} : n <= there}

\* What is remembered of the latest run of the handlers of Session::read:
\* the bytes each of the two reads consumed, the size of buf_ and the bytes
\* decoded, whether the decoding stayed inside buf_, whether the Store was
\* called and whether Stats::update was, and for which frame of the peer
\* (by number) the run was made; then what handleRequest and write did, in
\* order (steps), the arguments Stats::update was given, and the value of
\* the length word that the first async_write of the response transmitted
\* (kept while the payload is being written).
NoRun == [frame |-> 0, lenBytes |-> 0, bodyBytes |-> 0, buf |-> <<>>,
          inside |-> TRUE, handled |-> FALSE, called |-> FALSE, updated |-> FALSE,
          steps |-> <<>>, update |-> [operation |-> 0, error |-> 0], word |-> 0]

\* Session::Session: the members of a Session just accepted, with the
\* payloads of the frames the peer has written (sent), the latest run of
\* the read handlers (run), the number of runs that reached handleRequest
\* (handled), the number of responses completely written (answered) and
\* the number of asynchronous operations of the Session that are
\* outstanding (io): Session::run has started the first read.
NewSession ==
  [pc |-> "READ_LEN", io |-> 1, wire |-> <<>>,
   bufSize_ |-> memcpy(0, sizeof.size_t), buf_ |-> <<>>,
   request_ |-> [operation |-> 0, key |-> <<>>, value |-> <<>>],
   response_ |-> [operation |-> 0, error |-> 0, value |-> <<>>],
   sent |-> <<>>, run |-> NoRun, handled |-> 0, answered |-> 0]

\* The greatest sizes of a Key and of a Value.
MAX_KEY_LENGTH == 1024
MAX_VALUE_LENGTH == 1048576

\* A key one byte longer than the greatest key there is.
LongKey == [i \in 1..MAX_KEY_LENGTH + 1 |-> 1]

\* The payloads a peer that is not the Client may send: well-formed
\* Requests whose key is within the limit or just beyond it.  (The 16-bit
\* length field cannot announce a value beyond the limit of values.)
LimitRequests ==
  [operation : Operations, key : SampleKeys \cup {LongKey}, value : {<<>>}]
LimitPayloads == {WriteRequest(r) : r \in LimitRequests}

\* A server with one accepted connection.
InitSession ==
  /\ fileExists = TRUE
  /\ db \in SampleStores
  /\ mtxName = 0
  /\ mtxOwner = [m \in MutexIds |-> <<>>]
  /\ procPc = [p \in Procs |-> IF p = MainProc THEN "running" ELSE "off"]
  /\ handle = [p \in Procs |-> IF p = MainProc THEN p ELSE 0]
  /\ atStop = [p \in Procs |-> NoSnapshot]
  /\ thr = [p \in Procs |-> [t \in Threads |-> NoCall]]
  /\ stats = [p \in Procs |->
                IF p = MainProc
                  THEN [NoStats EXCEPT !.built = TRUE, !.totalItemsInDb_ = size(db)]
                  ELSE NoStats]
  /\ hnd = [p \in Procs |-> [t \in Threads |-> IdleHandler]]
  /\ tmr = "wait"
  /\ conn = NewSession
  /\ cli = <<>>
  /\ cod = <<>>
  /\ srv = <<>>

\* The peer writes one more frame to the connection (Client::write for a
\* Request); TCP carries the bytes in order.
PeerWrite ==
  /\ conn.pc \notin {"closed", "dead"}
  /\ Len(conn.sent) < MaxFrames
  /\ \E payload \in Payloads :
       conn' = [conn EXCEPT !.wire = @ \o Frame(payload),
                            !.sent = Append(@, payload)]
  /\ UNCHANGED <<store, stats, hnd, tmr, cli, cod, srv>>

\* Session::read, first handler: async_read_some into the 8 bytes of
\* bufSize_ completes with the n >= 1 bytes that have arrived so far, then
\* buf_.resize(bufSize_) and the second async_read_some is started.  The
\* model follows sizes up to MaxBuf, the sizes of the payloads with a long
\* key, and MaxCalls requests of a Session.
ReadLen ==
  /\ conn.pc = "READ_LEN"
  /\ conn.handled < MaxCalls
  /\ \E n \in Arrivals(sizeof.size_t, Len(conn.wire)) :
       /\ LET word == SubSeq(conn.wire, 1, n)
                        \o SubSeq(conn.bufSize_, n + 1, sizeof.size_t)
              width == word[1] + 256 * word[2]
              small == /\ \A i \in 3..sizeof.size_t : word[i] = 0
                       /\ \/ width <= MaxBuf
                          \/ width \in {Len(payload) : payload \in LimitPayloads}
          IN  conn' = [conn EXCEPT
                         !.wire = SubSeq(@, n + 1, Len(@)),
                         !.bufSize_ = word,
                         !.buf_ = IF small THEN resize(@, width) ELSE @,
                         !.pc = IF small THEN "READ_BODY" ELSE "beyond",
                         !.io = @ - 1 + 1,
                         !.run = [NoRun EXCEPT !.frame = conn.handled + 1,
                                               !.lenBytes = n]]
  /\ UNCHANGED <<store, stats, hnd, tmr, cli, cod, srv>>

\* The values the local error of handleRequest may hold when no case of
\* the switch assigned it: Stats::update tells NONE from all others.
Unassigned == {Error.NONE, Error.INVALID_VALUE_LENGTH}

\* Session::read, second handler, with Session::handleRequest and the start
\* of Session::write: async_read_some into buf_ completes with the n >= 1
\* bytes that have arrived so far (at once with none when buf_ is empty);
\* the Reader decodes request_ from the whole of buf_, and past its end when
\* the fields say so (undefined behaviour: junk bytes, or the process dies);
\* the Store is called, Stats::update is called with the error (an
\* indeterminate value when no case of the switch assigned it), response_
\* is encoded into buf_ and the async_write of its size is started.
ReadBody ==
  /\ conn.pc = "READ_BODY"
  /\ \E n \in IF Len(conn.buf_) = 0
                 THEN {0} ELSE Arrivals(Len(conn.buf_), Len(conn.wire)) :
       /\ LET buf == SubSeq(conn.wire, 1, n) \o SubSeq(conn.buf_, n + 1, Len(conn.buf_))
              inside == ReadRequest(Reader(buf, <<>>))
              entry == [conn.run EXCEPT !.bodyBytes = n, !.buf = buf,
                                        !.inside = ~inside.fault]
          IN  \E junk \in IF inside.fault THEN Junk ELSE {<<>>} :
                LET m == ReadRequest(Reader(buf, junk))
                    request == [operation |-> m.operation, key |-> m.key,
                                value |-> m.value]
                    h == respond(db, request, conn.response_)
                IN  IF m.fault
                      THEN /\ conn' = [conn EXCEPT
                                         !.pc = "dead",
                                         !.io = @ - 1,
                                         !.wire = SubSeq(@, n + 1, Len(@)),
                                         !.run = entry]
                           /\ UNCHANGED <<db, stats>>
                      ELSE \E error \in IF h.called THEN {h.error} ELSE Unassigned :
                             /\ db' = h.db
                             /\ stats' = [stats EXCEPT ![MainProc] =
                                            update(@, request.operation, error)]
                             /\ conn' = [conn EXCEPT
                                           !.pc = "WRITE_LEN",
                                           !.io = @ - 1 + 1,
                                           !.wire = SubSeq(@, n + 1, Len(@)),
                                           !.request_ = request,
                                           !.response_ = h.response,
                                           !.buf_ = WriteResponse(h.response),
                                           !.handled = @ + 1,
                                           !.run =
                                             [entry EXCEPT
                                                !.handled = TRUE,
                                                !.called = h.called,
                                                !.updated = TRUE,
                                                !.steps =
                                                  (IF h.called THEN <<"store">>
                                                               ELSE <<>>)
                                                    \o <<"update", "write">>,
                                                !.update =
                                                  [operation |-> request.operation,
                                                   error |-> error]]]
  /\ UNCHANGED <<fileExists, mtxName, mtxOwner, procPc, handle, atStop, thr,
                 hnd, tmr, cli, cod, srv>>

\* The values the 8 bytes at the address of a dead local variable may hold
\* besides the one last stored there.
StackWords == {0, 1}

\* Session::write, first handler: the async_write of the size has
\* completed and the async_write of buf_ is started.  The first write was
\* given the address of the local variable size, and Session::write has
\* returned since: the word transmitted is the size when the bytes left in
\* the initiating call, and otherwise whatever the stack held (undefined
\* behaviour).
WrittenLen ==
  /\ conn.pc = "WRITE_LEN"
  /\ \E word \in {Len(conn.buf_)} \cup StackWords :
       conn' = [conn EXCEPT !.pc = "WRITE_BODY", !.io = @ - 1 + 1,
                            !.run.word = word,
                            !.run.steps = Append(@, "length")]
  /\ UNCHANGED <<store, stats, hnd, tmr, cli, cod, srv>>

\* Session::write, second handler: the payload of the response has been
\* written; read() is called for the next frame.
Written ==
  /\ conn.pc = "WRITE_BODY"
  /\ conn' = [conn EXCEPT !.pc = "READ_LEN", !.io = @ - 1 + 1,
                          !.answered = @ + 1,
                          !.run.word = NoRun.word,
                          !.run.steps = Append(@, "payload")]
  /\ UNCHANGED <<store, stats, hnd, tmr, cli, cod, srv>>

\* Mutant of Failed: the handler that got the error starts a read.
FailedReadsOn ==
  /\ conn.pc \in {"READ_LEN", "READ_BODY", "WRITE_LEN", "WRITE_BODY"}
  /\ conn' = [conn EXCEPT !.pc = "READ_LEN", !.io = @ - 1 + 1]
  /\ UNCHANGED <<store, stats, hnd, tmr, cli, cod, srv>>

\* A pending asynchronous operation of the Session completes with an error
\* code (the peer has gone): the handler logs it and starts nothing, and
\* with the handler the last reference to the Session goes: the Session
\* and its socket are destroyed.
Failed ==
  /\ conn.pc \in {"READ_LEN", "READ_BODY", "WRITE_LEN", "WRITE_BODY"}
  /\ conn' = [conn EXCEPT !.pc = "closed", !.io = @ - 1]
  /\ UNCHANGED <<store, stats, hnd, tmr, cli, cod, srv>>

NextSession ==
  PeerWrite \/ ReadLen \/ ReadBody \/ WrittenLen \/ Written \/ Failed

SpecSession == InitSession /\ [][NextSession]_vars

\* A peer that is not the Client writes one more frame to the connection:
\* Session::read takes whatever bytes the socket delivers.
PeerWriteLong ==
  /\ conn.pc \notin {"closed", "dead"}
  /\ Len(conn.sent) < MaxFrames
  /\ \E payload \in LimitPayloads :
       conn' = [conn EXCEPT !.wire = @ \o Frame(payload),
                            !.sent = Append(@, payload)]
  /\ UNCHANGED <<store, stats, hnd, tmr, cli, cod, srv>>

\* The Session of a connection whose peer sends keys beyond the limit.
NextLimits ==
  PeerWriteLong \/ ReadLen \/ ReadBody \/ WrittenLen \/ Written \/ Failed

SpecLimits == InitSession /\ [][NextLimits]_vars

\* ----------------------------------------------------------- Client ----
\* The calls of Client::send that are followed.
MaxSends == 3

\* Mutant of isValidKey: one byte more is let through.
isValidKeyLoose(key) == key.size <= MAX_KEY_LENGTH + 1

\* isValidKey and isValidValue.  Of the strings of a Request the Client
\* itself uses the size only, and a string is given here by its size.
isValidKey(key) == key.size <= MAX_KEY_LENGTH
isValidValue(value) == value.size <= MAX_VALUE_LENGTH

\* The Requests given to Client::send: keys and values that are empty, of
\* the greatest valid size, and one byte longer.
ClientRequests ==
  [operation : {Operation.INSERT, Operation.GET},
   key : {[size |-> n] : n \in {1, MAX_KEY_LENGTH, MAX_KEY_LENGTH + 1}},
   value : {[size |-> n] : n \in {0, MAX_VALUE_LENGTH, MAX_VALUE_LENGTH + 1}}]

\* The endpoints a caller names; 0 is the default-constructed endpoint.
Endpoints == {1, 2}

\* Mutant of Failure: m_isConnected is left set.
FailureStaysConnected(c) == [c EXCEPT !.socket_ = [state |-> "closed", remote |-> 0]]

\* Client::send, the branch taken when write or read returned an error:
\* socket_.close() and m_isConnected = false.
Failure(c) ==
  [c EXCEPT !.socket_ = [state |-> "closed", remote |-> 0],
            !.m_isConnected = FALSE]

\* socket_.connect(lastEndpoint_, errorCode) with the assignment that
\* follows it: a closed socket is opened first, and the call fails at once
\* when that fails ("unopened"); a connect that fails ("refused") leaves the
\* socket open, unconnected.
connect(c, result) ==
  [c EXCEPT !.socket_ = CASE result = "ok" ->
                               [state |-> "connected", remote |-> c.lastEndpoint_]
                          [] result = "refused" -> [state |-> "open", remote |-> 0]
                          [] OTHER -> @,
            !.m_isConnected = (result = "ok")]

\* Writer::operator()(const std::string &) on a string given by its size:
\* the value of the 16-bit length written, and the number of string bytes
\* that follow it.
WriteStringSizes(val) ==
  [length |-> hton("uint16_t", val.size % 65536), bytes |-> val.size]

\* Client::write on a Request given by the sizes of its strings: the value
\* of the size_t written first, the number of payload bytes written after
\* it, and the two strings inside the payload.
ClientWrite(request) ==
  LET key == WriteStringSizes(request.key)
      value == WriteStringSizes(request.value)
      bufSize == sizeof.uint8_t + sizeof.uint16_t + key.bytes
                   + sizeof.uint16_t + value.bytes
  IN  [word |-> bufSize, payload |-> bufSize, key |-> key, value |-> value]

\* Nothing was written.
NoFrame ==
  [word |-> 0, payload |-> 0, key |-> [length |-> 0, bytes |-> 0],
   value |-> [length |-> 0, bytes |-> 0]]

\* No call of send has been made.
NoSend ==
  [outcome |-> "none", endpoint |-> 0,
   request |-> [operation |-> 0, key |-> [size |-> 0], value |-> [size |-> 0]],
   connects |-> 0, writes |-> 0, failed |-> "none", frame |-> NoFrame]

\* Client::Client, with what is remembered of the calls of send: their
\* number, the latest call (how it ended, its arguments, the connects and
\* writes it made, the operation that failed, the frame it handed to the
\* socket) and how the latest call that returned ended.
InitClient ==
  /\ fileExists = FALSE
  /\ db = {}
  /\ mtxName = 0
  /\ mtxOwner = [m \in MutexIds |-> <<>>]
  /\ procPc = [p \in Procs |-> "off"]
  /\ handle = [p \in Procs |-> 0]
  /\ atStop = [p \in Procs |-> NoSnapshot]
  /\ thr = [p \in Procs |-> [t \in Threads |-> NoCall]]
  /\ stats = [p \in Procs |-> NoStats]
  /\ hnd = [p \in Procs |-> [t \in Threads |-> IdleHandler]]
  /\ tmr = "wait"
  /\ conn = <<>>
  /\ cli = [lastEndpoint_ |-> 0,
            socket_ |-> [state |-> "closed", remote |-> 0],
            m_isConnected |-> FALSE,
            sends |-> 0, last |-> NoSend, returned |-> "none"]
  /\ cod = <<>>
  /\ srv = <<>>

\* Client::send(endpoint, request, response), from the call to the return
\* or the throw.  The network decides whether connect, write and read
\* succeed; for an operation the call does not make, no outcome is drawn.
send ==
  /\ cli.sends < MaxSends
  /\ \E endpoint \in Endpoints, request \in ClientRequests,
        connected \in {"ok", "refused", "unopened"},
        written \in BOOLEAN, read \in BOOLEAN :
       LET call == [NoSend EXCEPT !.endpoint = endpoint, !.request = request]
       IN  IF ~isValidKey(request.key) \/ ~isValidValue(request.value)
             THEN cli' = [cli EXCEPT !.sends = @ + 1,
                                     !.last = [call EXCEPT !.outcome = "threw"]]
             ELSE LET c1 == [cli EXCEPT !.lastEndpoint_ = endpoint]
                      dial == ~c1.m_isConnected
                      c2 == IF dial THEN connect(c1, connected) ELSE c1
                      io == c2.m_isConnected
                      error == io /\ ~(written /\ read)
                      c3 == IF error THEN Failure(c2) ELSE c2
                      failed == CASE ~io -> "connect"
                                  [] io /\ ~written -> "write"
                                  [] io /\ written /\ ~read -> "read"
                                  [] OTHER -> "none"
                      outcome == IF failed = "none" THEN "ok" ELSE "error"
                  IN  /\ (dial \/ connected = "ok")
                      /\ connected = "unopened" => c1.socket_.state = "closed"
                      /\ (io \/ (written /\ read))
                      /\ (written \/ read)
                      /\ cli' = [c3 EXCEPT
                                   !.sends = @ + 1,
                                   !.returned = outcome,
                                   !.last = [call EXCEPT
                                               !.outcome = outcome,
                                               !.connects = IF dial THEN 1 ELSE 0,
                                               !.writes = IF io THEN 1 ELSE 0,
                                               !.frame = IF io THEN ClientWrite(request)
                                                               ELSE NoFrame,
                                               !.failed = failed]]
  /\ UNCHANGED <<store, stats, hnd, tmr, conn, cod, srv>>

NextClient == send

SpecClient == InitClient /\ [][NextClient]_vars

\* ----------------------------------------------------------- Server ----
\* The completions of async_accept that are followed.
MaxAccepts == 6

\* Server::accept: one async_accept on the acceptor, into the member
\* socket_.
accept(s) == [s EXCEPT !.pending = @ + 1]

\* Mutant of completed: accept is armed again after a success only.
completedStopOnError(s, ec) ==
  LET done == [s EXCEPT !.pending = @ - 1, !.log = Append(@, ec)]
  IN  IF ~ec
        THEN accept([done EXCEPT !.sessions =
                       Append(@, [socket |-> Len(s.log) + 1, pc |-> NewSession.pc])])
        ELSE done

\* The completion handler of async_accept, called with ec (TRUE for an
\* error): without error a Session is made of the accepted socket and
\* Session::run starts its first read; then accept() in either case.  log
\* keeps the ec of every completion, and a Session is named by the number
\* of the completion that accepted its socket.
completed(s, ec) ==
  LET done == [s EXCEPT !.pending = @ - 1, !.log = Append(@, ec)]
      started == IF ~ec
                   THEN [done EXCEPT !.sessions =
                           Append(@, [socket |-> Len(s.log) + 1,
                                      pc |-> NewSession.pc])]
                   ELSE done
  IN  accept(started)

\* Server::Server: the Store is initialised, Stats is made and accept() is
\* called once.
InitServer ==
  /\ fileExists = TRUE
  /\ db = {}
  /\ mtxName = 0
  /\ mtxOwner = [m \in MutexIds |-> <<>>]
  /\ procPc = [p \in Procs |-> IF p = MainProc THEN "running" ELSE "off"]
  /\ handle = [p \in Procs |-> IF p = MainProc THEN p ELSE 0]
  /\ atStop = [p \in Procs |-> NoSnapshot]
  /\ thr = [p \in Procs |-> [t \in Threads |-> NoCall]]
  /\ stats = [p \in Procs |->
                IF p = MainProc
                  THEN [NoStats EXCEPT !.built = TRUE, !.totalItemsInDb_ = size(db)]
                  ELSE NoStats]
  /\ hnd = [p \in Procs |-> [t \in Threads |-> IdleHandler]]
  /\ tmr = "wait"
  /\ conn = <<>>
  /\ cli = <<>>
  /\ cod = <<>>
  /\ srv = accept([pending |-> 0, sessions |-> <<>>, log |-> <<>>])

\* A pending async_accept completes: a peer has connected, or the accept
\* failed.
Accepted ==
  /\ srv.pending > 0
  /\ Len(srv.log) < MaxAccepts
  /\ \E ec \in BOOLEAN : srv' = completed(srv, ec)
  /\ UNCHANGED <<store, stats, hnd, tmr, conn, cli, cod>>

NextServer == Accepted

SpecServer == InitServer /\ [][NextServer]_vars

\* ------------------------------------------------------- properties ----
\* A step in which thread t of process p runs the body of a Store operation.
Ran(p, t) == thr[p][t].pc = "cs" /\ thr'[p][t].pc = "ret"

\* The Store holds an item whose key is the byte string k.
HasKey(s, k) == \E i \in s : i.key = k

\* Thread t of process p holds the return value of operation o.
Returns(p, t, o) == thr[p][t].pc = "ret" /\ thr[p][t].op = o

\* C1: ins(k,v) inserts the item (k,v) and returns NONE exactly when no item
\* with key k is in the Store, and returns INSERT_KEY_ALREADY_EXISTS (leaving
\* the Store) when an item with key k exists.
C1_InsContract ==
  [][\A p \in Procs, t \in Threads :
       (Ran(p, t) /\ thr'[p][t].op = "INSERT") =>
         LET k == thr'[p][t].key
             v == thr'[p][t].value
         IN  IF HasKey(db, k)
               THEN thr'[p][t].err = "INSERT_KEY_ALREADY_EXISTS" /\ db' = db
               ELSE thr'[p][t].err = "NONE" /\ db' = db \cup {Item(k, v)}]_vars

\* C2: upd(k,v) returns UPDATE_KEY_NOT_FOUND when no item with key k exists,
\* UPDATE_VALUE_ALREADY_EXISTS when and only when the stored value is
\* byte-for-byte v, and otherwise replaces the value by v and returns NONE.
C2_UpdContract ==
  [][\A p \in Procs, t \in Threads :
       (Ran(p, t) /\ thr'[p][t].op = "UPDATE") =>
         LET k == thr'[p][t].key
             v == thr'[p][t].value
             e == thr'[p][t].err
         IN  /\ ~HasKey(db, k) => e = "UPDATE_KEY_NOT_FOUND" /\ db' = db
             /\ e = "UPDATE_VALUE_ALREADY_EXISTS" <=> Item(k, v) \in db
             /\ (HasKey(db, k) /\ Item(k, v) \notin db) =>
                  /\ e = "NONE"
                  /\ db' = {i \in db : i.key # k} \cup {Item(k, v)}]_vars

\* C3: del(k) removes the item with key k and returns NONE when it exists and
\* returns DELETE_KEY_NOT_FOUND when it does not; right after a successful
\* del(k), get(k) answers GET_KEY_NOT_FOUND.
C3_DelContract ==
  [][\A p \in Procs, t \in Threads :
       (Ran(p, t) /\ thr'[p][t].op = "DELETE") =>
         LET k == thr'[p][t].key
             e == thr'[p][t].err
         IN  /\ IF HasKey(db, k)
                  THEN e = "NONE" /\ db' = {i \in db : i.key # k}
                  ELSE e = "DELETE_KEY_NOT_FOUND" /\ db' = db
             /\ e = "NONE" => get(db', k, <<>>).err = "GET_KEY_NOT_FOUND"]_vars

\* C4: a get(k) that follows a successful ins(k,v), nothing in between,
\* returns (NONE, v) with v the inserted bytes; get of a key that holds no
\* item returns GET_KEY_NOT_FOUND, the empty key included.
C4_InsThenGet ==
  \A p \in Procs, t \in Threads :
    /\ (Returns(p, t, "INSERT") /\ thr[p][t].err = "NONE") =>
         LET r == get(db, thr[p][t].key, <<>>)
         IN  r.err = "NONE" /\ r.value = thr[p][t].value
    /\ (Returns(p, t, "GET") /\ ~HasKey(db, thr[p][t].key)) =>
         thr[p][t].err = "GET_KEY_NOT_FOUND"

\* C5: an ins, upd, del or get that returns an error other than NONE leaves
\* the set of items of the Store exactly as it was before the call.
C5_ErrorLeavesStore ==
  [][\A p \in Procs, t \in Threads :
       (Ran(p, t) /\ thr'[p][t].err # "NONE") => db' = db]_vars

\* C5 witness: an ins was refused for a key whose stored value differs from
\* the value offered, and the Store still holds the old value.
C5_Witness ==
  \E t \in Threads :
    /\ Returns(MainProc, t, "INSERT")
    /\ thr[MainProc][t].err = "INSERT_KEY_ALREADY_EXISTS"
    /\ \E i \in db : /\ i.key = c_str(thr[MainProc][t].key)
                     /\ i.value # c_str(thr[MainProc][t].value)

\* C6: from the empty Store on, size() is the number of ins calls that
\* returned NONE minus the number of del calls that returned NONE.  Stated
\* step by step: the Store is created empty, a step changes the item count by
\* +1 exactly when it is an ins returning NONE and by -1 exactly when it is a
\* del returning NONE, and size() returns the item count.
C6_SizeCounts ==
  [][LET insOk == \E p \in Procs, t \in Threads :
                    Ran(p, t) /\ thr'[p][t].op = "INSERT" /\ thr'[p][t].err = "NONE"
         delOk == \E p \in Procs, t \in Threads :
                    Ran(p, t) /\ thr'[p][t].op = "DELETE" /\ thr'[p][t].err = "NONE"
     IN  /\ size(db') + (IF delOk THEN 1 ELSE 0) = size(db) + (IF insOk THEN 1 ELSE 0)
         /\ ~fileExists => size(db) = 0
         /\ \A p \in Procs, t \in Threads :
              (Ran(p, t) /\ thr'[p][t].op = "SIZE") => thr'[p][t].n = size(db)]_vars

\* C6 witness: size() returned 2 (two more successful ins than del).
C6_Witness ==
  \E t \in Threads : Returns(MainProc, t, "SIZE") /\ thr[MainProc][t].n = 2

\* C7: within one process at most one thread is between the mutex acquisition
\* and the return of a Store operation, it is the holder of the mutex, and the
\* Store changes only in the step of that holder: the operations take effect
\* one at a time, in the order of the mutex acquisitions.
C7_ThreadsSerialised ==
  /\ [](\A p \in Procs, t \in Threads :
          Inside(p, t) =>
            /\ handle[p] # 0
            /\ mtxOwner[handle[p]] = <<p, t>>
            /\ \A u \in Threads \ {t} : ~Inside(p, u))
  /\ [][db' # db =>
          \E t \in Threads :
            Ran(MainProc, t) /\ mtxOwner[handle[MainProc]] = <<MainProc, t>>]_vars

\* C7 witness: a thread has updated the Store and not yet returned while
\* another thread of the process has called an operation and waits.
C7_Witness ==
  \E t, u \in Threads :
    /\ t # u
    /\ Returns(MainProc, t, "UPDATE")
    /\ thr[MainProc][t].err = "NONE"
    /\ thr[MainProc][u].pc = "wait"

\* C8: no two processes that opened the same storage file are inside a Store
\* operation at the same time.
C8_ProcessesExcluded ==
  \A p, q \in Procs :
    p # q => ~(\E t, u \in Threads : Inside(p, t) /\ Inside(q, u))

\* C9: from the construction of the singleton until the normal termination
\* of its process the mutex it uses is registered under DATABASE_MUTEX, and
\* after that termination the name is removed.
C9_MutexStaysRegistered ==
  /\ procPc[MainProc] # "off" => (mtxName # 0 /\ mtxName = handle[MainProc])
  /\ procPc[MainProc] = "off" => mtxName = 0

\* C10: init on a path with no file creates an empty Store, init on an
\* existing file leaves every item unchanged, and after a restart the Store
\* holds what it held at the previous normal stop.
C10_InitKeepsStore ==
  /\ [][\A p \in Procs :
          (procPc[p] = "constructed" /\ procPc'[p] = "inited") =>
            /\ fileExists'
            /\ db' = IF fileExists THEN db ELSE {}]_vars
  /\ [](\A p \in Procs :
          (procPc[p] = "inited" /\ atStop[p].valid) =>
            fileExists /\ db = atStop[p].db)

\* C10 witness: the server was stopped with items in the Store and has
\* reopened the file.
C10_Witness ==
  /\ procPc[MainProc] = "inited"
  /\ atStop[MainProc].valid
  /\ atStop[MainProc].db # {}
  /\ db # {}

\* A step in which thread t of process p finishes a call of Stats::update
\* that met no conflicting access to the Stats object.
Updated(p, t) ==
  /\ hnd[p][t].pc = "update"
  /\ hnd'[p][t].pc = "idle"
  /\ ~Conflict(p, t)

\* No request of process p is between its Store call and the end of its
\* Stats::update call.
Quiescent(p) == \A t \in Threads : hnd[p][t].pc = "idle"

\* C11: a call update(op, err) increments exactly one counter of op, failed
\* when err is not NONE and successful when it is NONE; the total goes up by
\* one only for a successful INSERT and down by one only for a successful
\* DELETE; the other counter of op, the counters of the other operations and
\* otherwise the total stay as they were.
C11_UpdateCounts ==
  [][\A p \in Procs, t \in Threads :
       Updated(p, t) =>
         LET o == hnd[p][t].operation
             ok == hnd[p][t].error = Error.NONE
             hit == IF ok THEN "successful" ELSE "failed"
             miss == IF ok THEN "failed" ELSE "successful"
         IN  /\ Counter(stats'[p], o, hit) = Counter(stats[p], o, hit) + 1
             /\ Counter(stats'[p], o, miss) = Counter(stats[p], o, miss)
             /\ \A x \in Operations \ {o} :
                  /\ Counter(stats'[p], x, "successful") = Counter(stats[p], x, "successful")
                  /\ Counter(stats'[p], x, "failed") = Counter(stats[p], x, "failed")
             /\ stats'[p].totalItemsInDb_ =
                  stats[p].totalItemsInDb_
                    + (IF o = Operation.INSERT /\ ok THEN 1 ELSE 0)
                    - (IF o = Operation.DELETE /\ ok THEN 1 ELSE 0)]_vars

\* C11 witness: the key has been in the Store all along (no INSERT and no
\* DELETE was handled), so the one UPDATE handled and counted as failed, not
\* as successful, was answered UPDATE_VALUE_ALREADY_EXISTS.
C11_Witness ==
  /\ Serving(MainProc) /\ Quiescent(MainProc)
  /\ db # {}
  /\ stats[MainProc].calls[Operation.INSERT] = 0
  /\ stats[MainProc].calls[Operation.DELETE] = 0
  /\ stats[MainProc].calls[Operation.UPDATE] = 1
  /\ Counter(stats[MainProc], Operation.UPDATE, "failed") = 1
  /\ Counter(stats[MainProc], Operation.UPDATE, "successful") = 0

\* C12: the total of a server's Stats is Store.size() whenever none of the
\* server's requests is between its Store call and its Stats update.
C12_TotalTracksSize ==
  \A p \in Procs :
    (Serving(p) /\ Quiescent(p)) => stats[p].totalItemsInDb_ = size(db)

\* C13: once all calls of update have returned, successful + failed of every
\* operation is the number of update calls made for it.
C13_NoUpdateLost ==
  \A p \in Procs :
    (Serving(p) /\ Quiescent(p)) =>
      \A o \in Operations :
        Counter(stats[p], o, "successful") + Counter(stats[p], o, "failed")
          = stats[p].calls[o]

\* The payloads of the frames the Client writes for its Requests.
ClientPayloads == {WriteRequest(r) : r \in SessionRequests}

\* Every frame the peer has written so far carries a Request encoded by the
\* Client.
ClientOnly == \A i \in 1..Len(conn.sent) : conn.sent[i] \in ClientPayloads

\* The latest run of the read handlers decoded a buffer.
Decoded == conn.run.handled \/ conn.pc = "dead"

\* The latest run of the read handlers took frame i of the peer off the
\* connection, whole and nothing else.
ReadWhole(i) ==
  /\ Decoded
  /\ conn.run.frame = i /\ i <= Len(conn.sent)
  /\ conn.run.lenBytes = sizeof.size_t
  /\ conn.run.bodyBytes = Len(conn.sent[i])
  /\ conn.run.buf = conn.sent[i]

\* The Request that the Client encoded as payload.
Encoded(payload) == CHOOSE r \in SessionRequests : WriteRequest(r) = payload

\* C14: of a peer that sends Requests as the Client frames them, the Session
\* handles no more requests than frames have arrived and answers them in
\* order: run i of handleRequest is made for frame i and its response
\* carries the operation of request i, and a request is handled only when
\* the responses to all earlier ones have been written completely.
C14_InOrderOneResponse ==
  ClientOnly =>
    /\ conn.handled <= Len(conn.sent)
    /\ conn.answered <= conn.handled /\ conn.handled <= conn.answered + 1
    /\ (conn.run.handled /\ conn.run.frame <= Len(conn.sent)) =>
         conn.response_.operation = Encoded(conn.sent[conn.run.frame]).operation

\* C15: for every Request the Client sends and however TCP cuts the bytes,
\* the first read of a run consumes exactly the 8 bytes of the length, the
\* second exactly the payload, and the Request decoded is the one encoded.
C15_ReadsWholeFrames ==
  (ClientOnly /\ conn.run.handled /\ conn.run.frame <= Len(conn.sent)) =>
    /\ conn.run.lenBytes = sizeof.size_t
    /\ conn.run.bodyBytes = Len(conn.sent[conn.run.frame])
    /\ conn.request_ = Encoded(conn.sent[conn.run.frame])

\* C16: a frame that is read whole and whose payload ends inside a field, or
\* whose operation byte is none of 0..3, causes no Store operation and no
\* Stats update; no response is written and the connection is closed.
C16_UndecodableDropped ==
  \A i \in 1..Len(conn.sent) :
    (/\ ReadWhole(i)
     /\ ~conn.run.inside \/ conn.run.buf[1] \notin Operations)
      => /\ ~conn.run.called /\ ~conn.run.updated
         /\ conn.pc \in {"closed", "dead"}

\* C17: the response to a Request with one of the four operations carries
\* the operation of the Request, the error the Store operation returned and
\* the stored value for a GET answered NONE, the empty value otherwise; the
\* Store is left as that operation left it; and when a response with an
\* error other than NONE has been written, the Session reads the next frame
\* unless the connection fails.
C17_ResponseOfRequest ==
  [][/\ (/\ conn.pc = "READ_BODY" /\ conn'.pc = "WRITE_LEN"
         /\ conn'.request_.operation \in Operations)
          => (LET request == conn'.request_
                  res == StoreCall(db, request.operation, request.key,
                                   request.value)
                  found == request.operation = Operation.GET /\ res.err = "NONE"
              IN  /\ db' = res.db
                  /\ conn'.response_ =
                       [operation |-> request.operation,
                        error |-> Error[res.err],
                        value |-> IF found THEN res.value ELSE <<>>]
                  /\ conn'.buf_ = WriteResponse(conn'.response_))
     /\ (/\ conn.pc \in {"WRITE_LEN", "WRITE_BODY"}
         /\ conn.response_.error # Error.NONE
         /\ conn'.pc # conn.pc)
          => (/\ conn'.pc \in {"WRITE_BODY", "READ_LEN", "closed"}
              /\ conn'.pc = "WRITE_BODY" => conn.pc = "WRITE_LEN"
              /\ conn'.pc = "READ_LEN" => conn.pc = "WRITE_BODY"
              /\ db' = db)]_vars

\* C17 witness: the first frame, an INSERT of a key the Store held, was
\* answered INSERT_KEY_ALREADY_EXISTS with an empty value, the response was
\* written, and the Session has read the second frame whole and answers its
\* GET with NONE and the stored value.
C17_Witness ==
  /\ Len(conn.sent) = 2 /\ ClientOnly
  /\ Encoded(conn.sent[1]).operation = Operation.INSERT
  /\ Encoded(conn.sent[1]).value = <<>>
  /\ conn.answered = 1
  /\ ReadWhole(2)
  /\ conn.pc = "WRITE_LEN"
  /\ conn.request_.operation = Operation.GET
  /\ conn.response_ = [operation |-> Operation.GET, error |-> Error.NONE,
                       value |-> <<1>>]
  /\ Counter(stats[MainProc], Operation.INSERT, "failed") = 1

\* A step that is a call of Client::send.
Sent == cli'.sends = cli.sends + 1

\* C18: a call of Client::send whose key is longer than 1024 bytes or whose
\* value is longer than 1,048,576 bytes throws before anything else is
\* done: it makes no connect and writes nothing, and the remembered
\* endpoint, the socket and the connected flag are as they were before it.
C18_InvalidRejectedLocally ==
  [][(/\ Sent
      /\ \/ cli'.last.request.key.size > MAX_KEY_LENGTH
         \/ cli'.last.request.value.size > MAX_VALUE_LENGTH)
       => /\ cli'.last.outcome = "threw"
          /\ cli'.last.connects = 0 /\ cli'.last.writes = 0
          /\ cli'.lastEndpoint_ = cli.lastEndpoint_
          /\ cli'.m_isConnected = cli.m_isConnected
          /\ cli'.socket_ = cli.socket_
          /\ cli'.returned = cli.returned]_vars

\* C18 witness: a Client connected to endpoint 1 was asked to send a key of
\* 1025 bytes to endpoint 2; the call threw, and the Client is still
\* connected and remembers endpoint 1.
C18_Witness ==
  /\ cli.last.outcome = "threw"
  /\ cli.last.request.key.size = MAX_KEY_LENGTH + 1
  /\ cli.last.request.value.size = 0
  /\ cli.last.endpoint = 2
  /\ cli.lastEndpoint_ = 1
  /\ cli.m_isConnected /\ cli.socket_.state = "connected"

\* C19: once a call of send has returned, the Client is connected exactly
\* when the latest call that returned gave no error, and the socket is
\* closed whenever that call gave an error, a failed connect included.
C19_ConnectedIffLastOk ==
  cli.returned # "none" =>
    /\ cli.m_isConnected <=> cli.returned = "ok"
    /\ cli.returned = "error" => cli.socket_.state = "closed"

\* C19 as the code has it: once a call of send has returned, the Client is
\* connected exactly when the latest call that returned gave no error; an
\* error of write or read closes the socket, a failed connect leaves the
\* socket unconnected and does not close it; a send of a Client that is not
\* connected makes one connect, a send of a connected Client makes none and
\* keeps the connection it has.
C19_ConnectedIffLastOkSocketKept ==
  /\ [](cli.returned # "none" =>
          /\ cli.m_isConnected <=> cli.returned = "ok"
          /\ cli.m_isConnected <=> cli.socket_.state = "connected")
  /\ [][(Sent /\ cli'.last.outcome # "threw") =>
          /\ cli'.last.connects = (IF cli.m_isConnected THEN 0 ELSE 1)
          /\ cli'.last.failed \in {"write", "read"} => cli'.socket_.state = "closed"
          /\ cli'.last.failed = "connect" =>
               /\ cli'.socket_.state \in {"open", "closed"}
               /\ cli.socket_.state = "open" => cli'.socket_.state = "open"
          /\ cli'.last.outcome = "ok" =>
               cli'.socket_ = [state |-> "connected",
                               remote |-> IF cli.m_isConnected
                                            THEN cli.socket_.remote
                                            ELSE cli'.last.endpoint]]_vars

\* C19 witness: the read of the second call failed after the first call had
\* connected, the third call connected again and succeeded.
C19_Witness ==
  /\ cli.sends = 3
  /\ cli.returned = "ok" /\ cli.m_isConnected
  /\ cli.last.connects = 1 /\ cli.last.writes = 1
  /\ cli.last.endpoint = 2 /\ cli.socket_.remote = 2

\* C20: for every Request and every Response whose strings are at most
\* 65,535 bytes long, the message decoded from the bytes that encoding it
\* produced equals the original in every field, and decoding stayed inside
\* the buffer.
C20_RoundTrip ==
  (/\ cod.pc = "decoded"
   /\ Len(cod.msg.value) <= UINT16_MAX
   /\ cod.msg.kind = "Request" => Len(cod.msg.key) <= UINT16_MAX)
    => (cod.out = cod.msg /\ ~cod.fault)

\* C20 witness: a Response with an error code and a value that holds a NUL
\* byte has been encoded and decoded.
C20_Witness ==
  /\ cod.pc = "decoded"
  /\ cod.msg.kind = "Response"
  /\ cod.msg.error = Error.GET_KEY_NOT_FOUND
  /\ cod.msg.value = <<1, 0>>
  /\ cod.out = cod.msg

\* C28: whenever the Client is connected, its socket is connected to the
\* endpoint it remembers as last, so that a send that returned no error has
\* exchanged request and response with the server at the endpoint it was
\* given.
C28_ConnectedToLastEndpoint ==
  /\ cli.m_isConnected => cli.socket_.remote = cli.lastEndpoint_
  /\ cli.last.outcome = "ok" => cli.socket_.remote = cli.last.endpoint

\* C27: after every completion of an accept, with or without error, exactly
\* one accept is pending; the Sessions started are those of the completions
\* without error, one each, in order, each on its accepted socket and in
\* its READ_LEN step; a completion with an error starts none.
C27_AcceptRearmed ==
  /\ [](/\ srv.pending = 1
        /\ Len(srv.sessions) = Cardinality({i \in 1..Len(srv.log) : ~srv.log[i]})
        /\ \A j \in 1..Len(srv.sessions) :
             /\ srv.sessions[j].pc = "READ_LEN"
             /\ srv.sessions[j].socket \in 1..Len(srv.log)
             /\ ~srv.log[srv.sessions[j].socket]
             /\ \A k \in 1..(j - 1) : srv.sessions[k].socket < srv.sessions[j].socket)
  /\ [][Len(srv'.log) = Len(srv.log) + 1 =>
          /\ Len(srv'.sessions) =
               Len(srv.sessions) + (IF srv'.log[Len(srv'.log)] THEN 0 ELSE 1)
          /\ SubSeq(srv'.sessions, 1, Len(srv.sessions)) = srv.sessions]_vars

\* C27 witness: three accepts failed in a row, the next one succeeded and
\* started the first Session, and an accept is pending again.
C27_Witness ==
  /\ srv.log = <<TRUE, TRUE, TRUE, FALSE>>
  /\ srv.sessions = <<[socket |-> 4, pc |-> "READ_LEN"]>>
  /\ srv.pending = 1

\* C23: while threads of the server run GETs and UPDATEs of one key side by
\* side, a GET of a key that holds an item changes nothing and returns NONE
\* with the whole value the Store holds for the key, and that value is
\* exactly the bytes given to the INSERT or to the latest successful UPDATE
\* of the key: a successful INSERT or UPDATE leaves the bytes it was given
\* as the value of its key.
C23_GetsSeeWholeValues ==
  [][\A p \in Procs, t \in Threads :
       /\ (Ran(p, t) /\ thr'[p][t].op = "GET" /\ HasKey(db, thr'[p][t].key)) =>
            /\ thr'[p][t].err = "NONE"
            /\ Item(thr'[p][t].key, thr'[p][t].out) \in db
            /\ db' = db
       /\ (/\ Ran(p, t) /\ thr'[p][t].op \in {"INSERT", "UPDATE"}
           /\ thr'[p][t].err = "NONE") =>
            \A i \in db' : i.key = c_str(thr'[p][t].key) =>
                             i.value = thr'[p][t].value]_vars

\* C21: a message with a string longer than 65,535 bytes is not encoded: a
\* send given such a string writes no frame and does not return success,
\* and every frame the Client writes carries, for each string, a 16-bit
\* length equal to the number of string bytes that follow it.
C21_LongStringNotEncoded ==
  LET request == cli.last.request
      frame == cli.last.frame
  IN  /\ (request.key.size > UINT16_MAX \/ request.value.size > UINT16_MAX) =>
           (cli.last.writes = 0 /\ cli.last.outcome # "ok")
      /\ cli.last.writes > 0 =>
           /\ frame.key.length = frame.key.bytes
           /\ frame.value.length = frame.value.bytes

\* The steps of a Session that wait for an asynchronous operation.
IoSteps == {"READ_LEN", "READ_BODY", "WRITE_LEN", "WRITE_BODY"}

\* The order of the steps of a Session: the cycle, the end of the Session
\* on an error of any of the four operations, and the two ways the model
\* leaves a Session (a frame larger than the sizes followed, and the death
\* of the process in the decoder).
SessionEdges ==
  {<<"READ_LEN", "READ_BODY">>, <<"READ_BODY", "WRITE_LEN">>,
   <<"WRITE_LEN", "WRITE_BODY">>, <<"WRITE_BODY", "READ_LEN">>}
    \cup {<<step, "closed">> : step \in IoSteps}
    \cup {<<"READ_LEN", "beyond">>, <<"READ_BODY", "dead">>}

\* C24: a Session goes through READ_LEN, READ_BODY, HANDLE, WRITE_LEN,
\* WRITE_BODY and READ_LEN again, in this order and one at a time: exactly
\* one asynchronous operation is outstanding while the Session lives, the
\* request is handled (and the Store and Stats change) only between
\* READ_BODY and WRITE_LEN, once, and a response counts as written only at
\* the end of WRITE_BODY; after an error of any of the four operations no
\* operation is outstanding and nothing more happens.
C24_SessionCycle ==
  /\ [](/\ conn.io \in {0, 1}
        /\ conn.io = 0 <=> conn.pc \in {"closed", "dead"})
  /\ [][/\ conn'.pc # conn.pc => <<conn.pc, conn'.pc>> \in SessionEdges
        /\ (conn.pc = "READ_BODY" /\ conn'.pc = "WRITE_LEN") =>
             /\ conn'.handled = conn.handled + 1
             /\ SubSeq(conn'.run.steps, Len(conn'.run.steps) - 1,
                       Len(conn'.run.steps)) = <<"update", "write">>
        /\ ~(conn.pc = "READ_BODY" /\ conn'.pc = "WRITE_LEN") =>
             /\ conn'.handled = conn.handled
             /\ db' = db /\ stats' = stats
        /\ IF conn.pc = "WRITE_BODY" /\ conn'.pc = "READ_LEN"
             THEN conn'.answered = conn.answered + 1
             ELSE conn'.answered = conn.answered
        /\ conn.pc \in {"closed", "dead"} => conn' = conn]_vars

\* C24 witness: the Session answered one request, handled a second one, and
\* the write of the length of the second response failed.
C24_Witness ==
  /\ conn.pc = "closed" /\ conn.io = 0
  /\ conn.handled = 2 /\ conn.answered = 1
  /\ conn.run.steps = <<"store", "update", "write">>

C26_LengthWordIsPayloadSize ==
  /\ DOMAIN conn # {} =>
       (conn.pc = "WRITE_BODY" => conn.run.word = Len(conn.buf_))
  /\ DOMAIN cli # {} =>
       (cli.last.writes > 0 => cli.last.frame.word = cli.last.frame.payload)

\* C22: every key in the Store has at most MAX_KEY_LENGTH bytes and every
\* value at most MAX_VALUE_LENGTH, whatever frames the peers send: a
\* request with a longer key is answered INVALID_KEY_LENGTH by the Session
\* and is not passed to the Store.
C22_StoreWithinLimits ==
  /\ \A item \in db : /\ Len(item.key) <= MAX_KEY_LENGTH
                      /\ Len(item.value) <= MAX_VALUE_LENGTH
  /\ (conn.run.handled /\ Len(conn.request_.key) > MAX_KEY_LENGTH) =>
       /\ ~conn.run.called
       /\ conn.response_.error = Error.INVALID_KEY_LENGTH

====
